---- MODULE Spec2Model ----
(***************************************************************************)
(* Model of functionsdk/client.py: construction of a Client from its       *)
(* ClientOptions, the unary pass-through calls, and the streaming call     *)
(* chat_complete_stream with its token generator                           *)
(* _chat_complete_stream_wrapper.                                          *)
(*                                                                         *)
(* Text that the code parses (baseUrl) is a sequence of one-character      *)
(* strings, so that urlparse is modelled by what it does to the text.      *)
(* Opaque text (apiKey, model names, contents) is a plain string.          *)
(* The Transport Channel (grpclib.client.Channel) and the Service Stub     *)
(* (APIGatewayServiceStub) are collaborators outside the repository: the   *)
(* Channel is the record of the arguments it is opened with, the stub is   *)
(* a script of the outcomes it gives to successive calls.                  *)
(***************************************************************************)
EXTENDS Integers, Sequences, FiniteSets, TLC

\* A Python value that may be None is a tuple of length 0 (None) or 1.
None == <<>>

Some(x) == <<x>>

----------------------------------------------------------------------------
(* Bounds of the exploration. *)

\* Longest underlying stream (number of chunks) that is explored.
MaxChunks == 3

\* __anext__ calls on tokenStream that are explored after it has raised once.
MaxRaises == 2

----------------------------------------------------------------------------
(* Text helpers. *)

UpperChars == {"A", "H", "P", "S", "T"}

\* str.lower() on one character of the alphabet in use.
LowerChar(c) ==
    CASE c = "A" -> "a"
      [] c = "H" -> "h"
      [] c = "P" -> "p"
      [] c = "S" -> "s"
      [] c = "T" -> "t"
      [] OTHER -> c

\* str.lower()
Lower(s) == [i \in 1..Len(s) |-> LowerChar(s[i])]

AlphaChars ==
    {"a", "c", "e", "f", "h", "i", "k", "n", "o", "p", "r", "s", "t", "u",
     "v", "w", "x"} \cup UpperChars

DigitChars == {"0", "1", "2", "3", "4", "5", "6", "7", "8", "9"}

\* urllib.parse.scheme_chars
SchemeChars == AlphaChars \cup DigitChars \cup {"+", "-", "."}

DigitValue(c) ==
    CASE c = "0" -> 0 [] c = "1" -> 1 [] c = "2" -> 2 [] c = "3" -> 3
      [] c = "4" -> 4 [] c = "5" -> 5 [] c = "6" -> 6 [] c = "7" -> 7
      [] c = "8" -> 8 [] c = "9" -> 9 [] OTHER -> 0

\* int(s) for a string of decimal digits.
RECURSIVE ToInt(_)
ToInt(s) ==
    IF s = <<>> THEN 0
    ELSE 10 * ToInt(SubSeq(s, 1, Len(s) - 1)) + DigitValue(s[Len(s)])

\* str.find: the first index >= from whose character is in cs, 0 when none.
FindAny(s, cs, from) ==
    LET hits == {i \in from..Len(s) : s[i] \in cs}
    IN  IF hits = {} THEN 0 ELSE CHOOSE i \in hits : \A j \in hits : i <= j

\* str.rfind: the last index whose character is c, 0 when none.
RFind(s, c) ==
    LET hits == {i \in 1..Len(s) : s[i] = c}
    IN  IF hits = {} THEN 0 ELSE CHOOSE i \in hits : \A j \in hits : j <= i

\* s[from:] in 1-based indices.
From(s, from) == SubSeq(s, from, Len(s))

----------------------------------------------------------------------------
(* urlparse(options.baseUrl) and the attributes the constructor reads. *)

\* urlparse(url): scheme (lower-cased), netloc and path of the text.
urlparse(url) ==
    LET i       == FindAny(url, {":"}, 1)
        hasSch  == /\ i > 1
                   /\ url[1] \in AlphaChars
                   /\ \A j \in 1..(i - 1) : url[j] \in SchemeChars
        scheme  == IF hasSch THEN Lower(SubSeq(url, 1, i - 1)) ELSE <<>>
        rest    == IF hasSch THEN From(url, i + 1) ELSE url
        hasLoc  == Len(rest) >= 2 /\ rest[1] = "/" /\ rest[2] = "/"
        delim   == IF hasLoc THEN FindAny(rest, {"/", "?", "#"}, 3) ELSE 0
        netloc  == IF ~hasLoc THEN <<>>
                   ELSE IF delim = 0 THEN From(rest, 3)
                   ELSE SubSeq(rest, 3, delim - 1)
        after   == IF ~hasLoc THEN rest
                   ELSE IF delim = 0 THEN <<>>
                   ELSE From(rest, delim)
        cut     == FindAny(after, {"?", "#"}, 1)
        path    == IF cut = 0 THEN after ELSE SubSeq(after, 1, cut - 1)
    IN  [scheme |-> scheme, netloc |-> netloc, path |-> path]

\* The (hostname, port) texts of a netloc: after the last "@", split at the
\* first ":".
hostinfo(netloc) ==
    LET at    == RFind(netloc, "@")
        hp    == From(netloc, at + 1)
        colon == FindAny(hp, {":"}, 1)
    IN  IF colon = 0 THEN [hostname |-> hp, port |-> <<>>]
        ELSE [hostname |-> SubSeq(hp, 1, colon - 1),
              port |-> From(hp, colon + 1)]

\* url.hostname: None when empty, else lower-cased.
hostname(url) ==
    LET h == hostinfo(url.netloc).hostname
    IN  IF h = <<>> THEN None ELSE Some(Lower(h))

\* url.port: None when absent or empty, the integer when it is decimal and
\* in 0..65535; otherwise reading the attribute raises ValueError.
port(url) ==
    LET p == hostinfo(url.netloc).port
    IN  IF p = <<>> THEN [raises |-> FALSE, value |-> None]
        ELSE IF \E j \in 1..Len(p) : p[j] \notin DigitChars
             THEN [raises |-> TRUE, value |-> None]
        ELSE IF ToInt(p) > 65535 THEN [raises |-> TRUE, value |-> None]
        ELSE [raises |-> FALSE, value |-> Some(ToInt(p))]

----------------------------------------------------------------------------
(* Client.__init__ *)

\* DEFAULT_BASE_PATH = "https://api.function.network"
DEFAULT_BASE_PATH ==
    <<"h", "t", "t", "p", "s", ":", "/", "/", "a", "p", "i", ".", "f", "u",
      "n", "c", "t", "i", "o", "n", ".", "n", "e", "t", "w", "o", "r", "k">>

https == <<"h", "t", "t", "p", "s">>

\* ChannelArgs with the TLS flag taken from the presence of a scheme instead
\* of from the scheme being https.
ChannelArgs_AnySchemeIsTls(url) ==
    [host |-> hostname(url),
     port |-> port(url).value,
     path |-> url.path,
     ssl  |-> (url.scheme # <<>>)]

\* The keyword arguments of Channel(...), with url = urlparse(baseUrl) and
\* its port already read.
ChannelArgs(url) ==
    [host |-> hostname(url),
     port |-> port(url).value,
     path |-> url.path,
     ssl  |-> (url.scheme = https)]

\* APIGatewayServiceStub(channel, metadata=[('x-api-key', apiKey)])
APIGatewayServiceStub(channel, apiKey) ==
    [channel |-> channel, metadata |-> << <<"x-api-key", apiKey>> >>]

\* Client__init__ with the apiKey checked after the channel is opened.
Client__init__ChecksKeyLast(options) ==
    LET url == urlparse(options.baseUrl)
    IN  IF port(url).raises
        THEN [raised |-> Some("ValueError"),
              msg |-> "port",
              parsed |-> TRUE, channel |-> None, service |-> None]
        ELSE IF options.apiKey = Some("") \/ options.apiKey = None
        THEN [raised |-> Some("ValueError"),
              msg |-> "apiKey must be specified",
              parsed |-> TRUE,
              channel |-> Some(ChannelArgs(url)),
              service |-> None]
        ELSE [raised |-> None,
              msg |-> "",
              parsed |-> TRUE,
              channel |-> Some(ChannelArgs(url)),
              service |-> Some(APIGatewayServiceStub(
                                 ChannelArgs(url), options.apiKey[1]))]

\* What one run of the constructor does: raised/msg is the exception it
\* ends with (None: it returns), parsed tells whether urlparse ran, channel
\* is the Channel it opened and service the stub it stored in self.service.
Client__init__(options) ==
    IF options.apiKey = Some("") \/ options.apiKey = None
    THEN [raised |-> Some("ValueError"),
          msg |-> "apiKey must be specified",
          parsed |-> FALSE, channel |-> None, service |-> None]
    ELSE LET url == urlparse(options.baseUrl)
         IN  IF port(url).raises
             THEN [raised |-> Some("ValueError"),
                   msg |-> "port",
                   parsed |-> TRUE, channel |-> None, service |-> None]
             ELSE LET channel == ChannelArgs(url)
                  IN  [raised |-> None,
                       msg |-> "",
                       parsed |-> TRUE,
                       channel |-> Some(channel),
                       service |-> Some(APIGatewayServiceStub(
                                          channel, options.apiKey[1]))]

----------------------------------------------------------------------------
(* The Service Stub: what it answers to the calls made on it. *)

Faults == {"TransportFault", "RemoteFault"}

\* One answer of a unary stub operation: a fault raised, or a value returned.
Outcomes(values) ==
    {[fault |-> Some(f), value |-> None] : f \in Faults}
        \cup {[fault |-> None, value |-> Some(v)] : v \in values}

\* The answers the stub gives to the first and to a second call.
Scripts(values) == [1..2 -> Outcomes(values)]

Roles == {"assistant", "user"}

Contents == {"Hi", " there"}

\* ChatCompleteMessage, and the response of a streamed chunk (chunk.response).
Messages == [role : Roles, content : Contents]

Models == {"model-a"}

MessageLists ==
    {<<>>,
     <<[role |-> "user", content |-> "Hi"]>>,
     <<[role |-> "user", content |-> "Hi"],
       [role |-> "assistant", content |-> " there"]>>,
     <<[role |-> "assistant", content |-> " there"],
       [role |-> "user", content |-> "Hi"]>>}

ChatCompleteResponses ==
    {[role |-> "assistant", content |-> c, tokens |-> n] :
        c \in Contents, n \in {1}}

EmbedResponses == {[embedding |-> <<1, 2>>], [embedding |-> <<>>]}

TextToImageResponses ==
    {[images |-> <<>>],
     [images |-> <<[url |-> "u1"], [url |-> "u2"]>>],
     [images |-> <<[url |-> "u2"], [url |-> "u1"]>>]}

TranscribeResponses == {[text |-> "Hi"], [text |-> " there"]}

\* The streams the stub's chat_complete_stream can produce: the chunks it
\* yields, then either the end of the stream or a fault.
RawStreams ==
    [chunks : UNION {[1..n -> Messages] : n \in 0..MaxChunks},
     ending : {"end"} \cup Faults]

\* One call on the stub, as the stub sees it.
StubCall(service, op, kwargs) ==
    [op |-> op, kwargs |-> kwargs, metadata |-> service.metadata]

----------------------------------------------------------------------------
(* The unary methods. Each gives the calls it made on the stub, the value  *)
(* it returned (None when it raised) and the exception it raised.          *)

\* chat_complete that calls the stub a second time when the first call
\* faults.
chat_complete_Retries(service, model, messages, script) ==
    LET call == StubCall(service, "chat_complete",
                         [model |-> model, message |-> messages])
    IN  IF script[1].fault = None
        THEN [calls |-> <<call>>, result |-> script[1].value,
              raised |-> script[1].fault]
        ELSE [calls |-> <<call, call>>, result |-> script[2].value,
              raised |-> script[2].fault]

\* return await self.service.chat_complete(model=model, message=messages)
chat_complete(service, model, messages, script) ==
    [calls  |-> <<StubCall(service, "chat_complete",
                           [model |-> model, message |-> messages])>>,
     result |-> script[1].value,
     raised |-> script[1].fault]

\* return await self.service.embed(model=model, input=input_string)
embed(service, model, input_string, script) ==
    [calls  |-> <<StubCall(service, "embed",
                           [model |-> model, input |-> input_string])>>,
     result |-> script[1].value,
     raised |-> script[1].fault]

\* res = await self.service.text_to_image(...); return res.images
text_to_image(service, model, prompt, count, quality, size, script) ==
    [calls  |-> <<StubCall(service, "text_to_image",
                           [model |-> model, prompt |-> prompt,
                            count |-> count, quality |-> quality,
                            size |-> size])>>,
     result |-> IF script[1].fault = None
                THEN Some(script[1].value[1].images) ELSE None,
     raised |-> script[1].fault]

\* transcribe with its two arguments handed over in each other's place.
transcribe_SwapsArguments(service, model, url, script) ==
    [calls  |-> <<StubCall(service, "transcribe",
                           [model |-> url, url |-> model])>>,
     result |-> script[1].value,
     raised |-> script[1].fault]

\* return await self.service.transcribe(model=model, url=url)
transcribe(service, model, url, script) ==
    [calls  |-> <<StubCall(service, "transcribe",
                           [model |-> model, url |-> url])>>,
     result |-> script[1].value,
     raised |-> script[1].fault]

----------------------------------------------------------------------------
(* The streaming call. *)

\* The async generator the stub returns (raw), before anything is read.
NewRaw(stream) ==
    [chunks |-> stream.chunks, ending |-> stream.ending,
     pos |-> 0, closed |-> FALSE]

\* No stream: the value of raw while no streaming call is under way.
NoRaw == [chunks |-> <<>>, ending |-> "end", pos |-> 0, closed |-> TRUE]

\* raw.__anext__(): the next chunk, or StopAsyncIteration at the end of the
\* stream, or the stream's fault; a generator that has ended or raised is
\* closed and gives StopAsyncIteration from then on.
RawNext(r) ==
    IF r.closed
    THEN [kind |-> "raise", value |-> "StopAsyncIteration",
          chunk |-> None, raw |-> r]
    ELSE IF r.pos < Len(r.chunks)
    THEN [kind |-> "chunk", value |-> "",
          chunk |-> Some(r.chunks[r.pos + 1]),
          raw |-> [r EXCEPT !.pos = r.pos + 1]]
    ELSE [kind |-> "raise",
          value |-> IF r.ending = "end" THEN "StopAsyncIteration"
                    ELSE r.ending,
          chunk |-> None,
          raw |-> [r EXCEPT !.closed = TRUE]]

\* raw = self.service.chat_complete_stream(model=model, message=messages)
chat_complete_stream_call(service, model, messages) ==
    <<StubCall(service, "chat_complete_stream",
               [model |-> model, message |-> messages])>>

\* chat_complete_stream_first that returns a record with an empty role when
\* the stream ends before its first chunk.
chat_complete_stream_first_DefaultsRole(r) ==
    LET first == RawNext(r)
    IN  IF first.kind = "chunk"
        THEN [raised |-> None,
              record |-> Some([role |-> first.chunk[1].role]),
              gen |-> "created",
              raw |-> first.raw]
        ELSE IF first.value = "StopAsyncIteration"
        THEN [raised |-> None,
              record |-> Some([role |-> ""]),
              gen |-> "created",
              raw |-> first.raw]
        ELSE [raised |-> Some(first.value),
              record |-> None,
              gen |-> "none",
              raw |-> first.raw]

\* chat_complete_stream_first that returns the record without awaiting the
\* first chunk, its role not yet known.
chat_complete_stream_first_NoAwait(r) ==
    [raised |-> None,
     record |-> Some([role |-> ""]),
     gen |-> "created",
     raw |-> r]

\* first = await raw.__anext__(); role = first.response.role; return
\* ChatCompleteStreamResponse(role, _chat_complete_stream_wrapper(raw)).
\* An exception of __anext__ leaves the coroutine as it is.
chat_complete_stream_first(r) ==
    LET first == RawNext(r)
    IN  IF first.kind = "chunk"
        THEN [raised |-> None,
              record |-> Some([role |-> first.chunk[1].role]),
              gen |-> "created",
              raw |-> first.raw]
        ELSE [raised |-> Some(first.value),
              record |-> None,
              gen |-> "none",
              raw |-> first.raw]

\* The wrapper with a fault of the underlying stream caught and turned into
\* the end of the token stream.
_chat_complete_stream_wrapper_SwallowsFault(g, base) ==
    IF g = "finished"
    THEN [out |-> [kind |-> "raise", value |-> "StopAsyncIteration"],
          gen |-> "finished", raw |-> base]
    ELSE LET nxt == RawNext(base)
         IN  IF nxt.kind = "chunk"
             THEN [out |-> [kind |-> "token", value |-> nxt.chunk[1].content],
                   gen |-> "suspended", raw |-> nxt.raw]
             ELSE [out |-> [kind |-> "raise", value |-> "RuntimeError"],
                   gen |-> "finished", raw |-> nxt.raw]

\* The wrapper yielding the chunk's role in place of its content.
_chat_complete_stream_wrapper_YieldsRole(g, base) ==
    IF g = "finished"
    THEN [out |-> [kind |-> "raise", value |-> "StopAsyncIteration"],
          gen |-> "finished", raw |-> base]
    ELSE LET nxt == RawNext(base)
         IN  IF nxt.kind = "chunk"
             THEN [out |-> [kind |-> "token", value |-> nxt.chunk[1].role],
                   gen |-> "suspended", raw |-> nxt.raw]
             ELSE IF nxt.value = "StopAsyncIteration"
             THEN [out |-> [kind |-> "raise", value |-> "RuntimeError"],
                   gen |-> "finished", raw |-> nxt.raw]
             ELSE [out |-> [kind |-> "raise", value |-> nxt.value],
                   gen |-> "finished", raw |-> nxt.raw]

\* One __anext__() on the generator _chat_complete_stream_wrapper(base):
\*     async for chunk in base: yield chunk.response.content
\*     raise StopAsyncIteration
\* A StopAsyncIteration raised in the body of an async generator reaches the
\* caller as RuntimeError; a generator that has raised is finished, and a
\* finished generator gives StopAsyncIteration.
_chat_complete_stream_wrapper(g, base) ==
    IF g = "finished"
    THEN [out |-> [kind |-> "raise", value |-> "StopAsyncIteration"],
          gen |-> "finished", raw |-> base]
    ELSE LET nxt == RawNext(base)
         IN  IF nxt.kind = "chunk"
             THEN [out |-> [kind |-> "token", value |-> nxt.chunk[1].content],
                   gen |-> "suspended", raw |-> nxt.raw]
             ELSE IF nxt.value = "StopAsyncIteration"
             THEN [out |-> [kind |-> "raise", value |-> "RuntimeError"],
                   gen |-> "finished", raw |-> nxt.raw]
             ELSE [out |-> [kind |-> "raise", value |-> nxt.value],
                   gen |-> "finished", raw |-> nxt.raw]

----------------------------------------------------------------------------
(* State. *)

VARIABLES
    options,   \* the ClientOptions of the latest construction (None: none yet)
    ctor,      \* what the latest construction did (None: none yet)
    client,    \* the constructed Client (None: none)
    stubLog,   \* the calls the latest method invocation made on the stub
    last,      \* the latest unary invocation: its arguments, the stub's
               \* script, the value returned and the exception raised
    pc,        \* chat_complete_stream: "idle", "awaiting" (the first chunk),
               \* "returned" or "raised"
    raw,       \* the underlying stream of the latest streaming call
    record,    \* the ChatCompleteStreamResponse the caller holds (None: none)
    raised,    \* the exception chat_complete_stream raised (None: none)
    gen,       \* tokenStream: "none", "created", "suspended" or "finished"
    seen       \* what the consumer of tokenStream got from each __anext__

vars == <<options, ctor, client, stubLog, last, pc, raw, record, raised,
          gen, seen>>

ctorVars == <<options, ctor, client>>

streamVars == <<pc, raw, record, raised, gen, seen>>

\* The text of the URL scheme://host[:port]path.
FormatUrl(scheme, host, portText, path) ==
    scheme \o <<":", "/", "/">> \o host
        \o (IF portText = <<>> THEN <<>> ELSE <<":">> \o portText) \o path

UrlSchemes == {https, <<"h", "t", "t", "p">>, <<"H", "T", "T", "P", "S">>}

UrlHosts == {<<"a", ".", "i", "o">>, <<"A", ".", "i", "o">>}

UrlPorts == {<<>>, <<"4", "4", "3">>, <<"7", "0", "0", "0", "0">>, <<"x">>}

UrlPaths == {<<>>, <<"/", "v", "1">>}

\* The URLs explored, by their parts: every scheme with every host, and
\* every port with every path.
UrlParts ==
    {<<s, h, <<>>, <<>>>> : s \in UrlSchemes, h \in UrlHosts}
        \cup {<<https, <<"a", ".", "i", "o">>, p, pa>> :
                 p \in UrlPorts, pa \in UrlPaths}

BaseUrls ==
    {DEFAULT_BASE_PATH} \cup
    {FormatUrl(u[1], u[2], u[3], u[4]) : u \in UrlParts}

ApiKeys == {None, Some(""), Some("key")}

ClientOptions == [apiKey : ApiKeys, baseUrl : BaseUrls]

NRaises(s) == Cardinality({i \in 1..Len(s) : s[i].kind = "raise"})

Init ==
    /\ options = None
    /\ ctor = None
    /\ client = None
    /\ stubLog = <<>>
    /\ last = None
    /\ pc = "idle"
    /\ raw = NoRaw
    /\ record = None
    /\ raised = None
    /\ gen = "none"
    /\ seen = <<>>

\* client = Client(options); a failed construction binds nothing.
Construct ==
    /\ client = None
    /\ \E o \in ClientOptions :
        LET r == Client__init__(o)
        IN  /\ options' = Some(o)
            /\ ctor' = Some(r)
            /\ client' = IF r.raised = None
                         THEN Some([service |-> r.service[1]])
                         ELSE client
    /\ UNCHANGED <<stubLog, last, streamVars>>

\* The methods share no state (each invocation works on its own arguments
\* and on the stub alone), so one invocation is followed at a time: a method
\* is invoked on a client on which nothing has been invoked yet.
Ready == client # None /\ last = None /\ pc = "idle"

Unary(method, args, script, r) ==
    /\ last' = Some([method |-> method, args |-> args, script |-> script,
                     result |-> r.result, raised |-> r.raised])
    /\ stubLog' = r.calls
    /\ UNCHANGED <<ctorVars, streamVars>>

ChatComplete ==
    /\ Ready
    /\ \E m \in Models, ms \in MessageLists,
          script \in Scripts(ChatCompleteResponses) :
        Unary("chat_complete", <<m, ms>>, script,
              chat_complete(client[1].service, m, ms, script))

Embed ==
    /\ Ready
    /\ \E m \in Models, input \in Contents, script \in Scripts(EmbedResponses) :
        Unary("embed", <<m, input>>, script,
              embed(client[1].service, m, input, script))

TextToImage ==
    /\ Ready
    /\ \E m \in Models, prompt \in Contents, count \in {1, 2},
          quality \in {"standard"}, size \in {"1x1"},
          script \in Scripts(TextToImageResponses) :
        Unary("text_to_image", <<m, prompt, count, quality, size>>, script,
              text_to_image(client[1].service, m, prompt, count, quality,
                            size, script))

Transcribe ==
    /\ Ready
    /\ \E m \in Models, url \in {"u1", "u2"},
          script \in Scripts(TranscribeResponses) :
        Unary("transcribe", <<m, url>>, script,
              transcribe(client[1].service, m, url, script))

\* chat_complete_stream up to its await.
ChatCompleteStreamCall ==
    /\ Ready
    /\ \E m \in Models, ms \in MessageLists, stream \in RawStreams :
        /\ stubLog' = chat_complete_stream_call(client[1].service, m, ms)
        /\ raw' = NewRaw(stream)
    /\ pc' = "awaiting"
    /\ UNCHANGED <<ctorVars, last, record, raised, gen, seen>>

\* chat_complete_stream from the arrival of the first chunk to its end.
ChatCompleteStreamFirst ==
    /\ pc = "awaiting"
    /\ LET r == chat_complete_stream_first(raw)
       IN  /\ pc' = IF r.raised = None THEN "returned" ELSE "raised"
           /\ raw' = r.raw
           /\ record' = r.record
           /\ raised' = r.raised
           /\ gen' = r.gen
    /\ UNCHANGED <<ctorVars, stubLog, last, seen>>

\* The consumer calls tokenStream.__anext__() (one step of an async for, or
\* an attempt to iterate again after the end).
TokenNext ==
    /\ record # None
    /\ NRaises(seen) < MaxRaises
    /\ LET r == _chat_complete_stream_wrapper(gen, raw)
       IN  /\ seen' = Append(seen, r.out)
           /\ gen' = r.gen
           /\ raw' = r.raw
    /\ UNCHANGED <<ctorVars, stubLog, last, pc, record, raised>>

Next ==
    \/ Construct
    \/ ChatComplete
    \/ Embed
    \/ TextToImage
    \/ Transcribe
    \/ ChatCompleteStreamCall
    \/ ChatCompleteStreamFirst
    \/ TokenNext

Spec == Init /\ [][Next]_vars

----------------------------------------------------------------------------
(* Vocabulary of the properties. *)

\* The content strings of a sequence of chunks, in order.
ContentsOf(chunks) == [i \in 1..Len(chunks) |-> chunks[i].content]

\* All chunks carry the role of the first.
SameRole(chunks) == \A i \in 1..Len(chunks) : chunks[i].role = chunks[1].role

IsToken(e) == e.kind = "token"

IsRaise(e) == e.kind = "raise"

\* The tokens the consumer received, in order.
TokensSeen ==
    LET toks == SelectSeq(seen, IsToken)
    IN  [i \in 1..Len(toks) |-> toks[i].value]

\* What the consumer's iterations ended with, in order.
RaisesSeen ==
    LET rs == SelectSeq(seen, IsRaise)
    IN  [i \in 1..Len(rs) |-> rs[i].value]

\* No token was received after an exception.
TokensFirst ==
    \A i, j \in 1..Len(seen) : (IsRaise(seen[i]) /\ IsToken(seen[j])) => j < i

\* The streaming call has returned its record to the caller.
Returned == pc = "returned" /\ record # None

----------------------------------------------------------------------------
(* C1 *)

\* C1 (as claimed): for a stream of n >= 1 chunks that all carry the role r
\* and that ends normally, the returned record has role r and, once the
\* iteration of tokenStream has ended, the tokens received are the contents
\* of ALL the stream's chunks in order and the iteration ended with the end
\* of the sequence (StopAsyncIteration), not with an error.
C1_AllContentsThenEnd ==
    (/\ pc \in {"returned", "raised"}
     /\ Len(raw.chunks) >= 1
     /\ SameRole(raw.chunks)
     /\ raw.ending = "end")
    => /\ Returned
       /\ record[1].role = raw.chunks[1].role
       /\ (RaisesSeen # <<>> =>
              /\ TokensSeen = ContentsOf(raw.chunks)
              /\ RaisesSeen[1] = "StopAsyncIteration")

----------------------------------------------------------------------------
(* C2 *)

\* C2: when the underlying stream yields no chunk at all, the streaming call
\* ends by raising an exception to its caller and no record is returned; and
\* a record that is returned always carries a role of the stream.
C2_EmptyStreamRaises ==
    /\ (pc \in {"returned", "raised"} /\ Len(raw.chunks) = 0)
       => (pc = "raised" /\ raised # None /\ record = None)
    /\ (record # None => record[1].role \in Roles)

\* An empty stream that ended normally was read, and the call raised.
C2_Witness ==
    /\ pc = "raised"
    /\ raw.chunks = <<>>
    /\ raw.ending = "end"
    /\ raw.closed
    /\ raised = Some("StopAsyncIteration")

----------------------------------------------------------------------------
(* C3 *)

NoApiKey(o) == o.apiKey = None \/ o.apiKey = Some("")

\* C3: a construction with an empty or absent apiKey raises the ValueError
\* "apiKey must be specified" whatever the baseUrl, with the baseUrl not
\* parsed, no Channel opened, no stub bound and no Client bound; and a
\* Client that exists carries a non-empty apiKey.
C3_NoKeyFailsFirst ==
    /\ (ctor # None /\ NoApiKey(options[1]))
       => /\ ctor[1].raised = Some("ValueError")
          /\ ctor[1].msg = "apiKey must be specified"
          /\ ~ctor[1].parsed
          /\ ctor[1].channel = None
          /\ ctor[1].service = None
          /\ client = None
    /\ (client # None =>
           client[1].service.metadata = << <<"x-api-key", "key">> >>)

\* A construction without apiKey on a baseUrl whose port cannot be read.
C3_Witness ==
    /\ ctor # None
    /\ options[1].apiKey = None
    /\ port(urlparse(options[1].baseUrl)).raises
    /\ ctor[1].raised = Some("ValueError")

----------------------------------------------------------------------------
(* C4 *)

\* C4: as long as the caller holds no record, nothing was read past the
\* await of the first chunk and no token was received; when the record is
\* visible, the first chunk has been read and the record's role is the first
\* chunk's role, and stays so during the whole iteration.
C4_RoleReadBeforeReturn ==
    /\ (record = None => seen = <<>> /\ raw.pos = 0 /\ gen = "none")
    /\ (record # None =>
           /\ raw.pos >= 1
           /\ raw.pos = 1 + Len(TokensSeen)
           /\ record[1].role = raw.chunks[1].role)

\* The record is held, two tokens were received, and the second chunk's role
\* differs from the first's.
C4_Witness ==
    /\ Returned
    /\ Len(TokensSeen) = 2
    /\ raw.chunks[2].role # raw.chunks[1].role
    /\ record[1].role = raw.chunks[1].role

----------------------------------------------------------------------------
(* C5 *)

\* C5 (as claimed): when the underlying stream completes, the iteration of
\* tokenStream ends with the end of the sequence, every later attempt to
\* iterate gives nothing, and no content is delivered twice: the consumer
\* sees at most one token per chunk, all before the end, and nothing but
\* StopAsyncIteration after them.
C5_EndsWithEndOfSequence ==
    (Returned /\ raw.ending = "end")
    => /\ TokensFirst
       /\ Len(TokensSeen) <= Len(raw.chunks)
       /\ \A i \in 1..Len(RaisesSeen) : RaisesSeen[i] = "StopAsyncIteration"

----------------------------------------------------------------------------
(* C6 *)

\* C6: when the underlying stream faults after its first chunk and k further
\* chunks, the consumer receives the k contents in order, then the fault
\* itself, and no token afterwards.
C6_FaultAfterTokens ==
    (Returned /\ raw.ending \in Faults)
    => LET k == Len(raw.chunks) - 1
       IN  \A i \in 1..Len(seen) :
              /\ i <= k =>
                   seen[i] = [kind |-> "token",
                              value |-> raw.chunks[i + 1].content]
              /\ i = k + 1 =>
                   seen[i] = [kind |-> "raise", value |-> raw.ending]
              /\ i > k + 1 => IsRaise(seen[i])

\* A stream of three chunks that then faults, iterated past the fault.
C6_Witness ==
    /\ Returned
    /\ raw.ending = "TransportFault"
    /\ Len(raw.chunks) = 3
    /\ Len(seen) = 4
    /\ seen[3] = [kind |-> "raise", value |-> "TransportFault"]

----------------------------------------------------------------------------
(* C7 *)

\* C7: every invocation of a method makes exactly one call on the stub, the
\* stub operation of that method; when the call faults, the method raises
\* that fault and returns nothing (for the streaming call: a fault in place
\* of the first chunk is raised by the call itself).
C7_OneCallNoRetry ==
    /\ (last # None =>
           /\ Len(stubLog) = 1
           /\ stubLog[1].op = last[1].method
           /\ (last[1].script[1].fault # None =>
                  /\ last[1].raised = last[1].script[1].fault
                  /\ last[1].result = None))
    /\ (pc # "idle" =>
           /\ Len(stubLog) = 1
           /\ stubLog[1].op = "chat_complete_stream"
           /\ (/\ pc # "awaiting"
               /\ raw.chunks = <<>>
               /\ raw.ending \in Faults
               => (pc = "raised" /\ raised = Some(raw.ending)
                   /\ record = None)))

\* chat_complete whose stub call faulted, where a second call would have
\* succeeded.
C7_Witness ==
    /\ last # None
    /\ last[1].method = "chat_complete"
    /\ last[1].script[1].fault = Some("RemoteFault")
    /\ last[1].script[2].fault = None
    /\ last[1].raised = Some("RemoteFault")

----------------------------------------------------------------------------
(* C8 *)

\* The keyword arguments a pass-through method is to hand to the stub.
ExpectedKwargs(method, args) ==
    CASE method = "chat_complete" -> [model |-> args[1], message |-> args[2]]
      [] method = "embed"         -> [model |-> args[1], input |-> args[2]]
      [] method = "transcribe"    -> [model |-> args[1], url |-> args[2]]

\* C8: chat_complete, embed and transcribe hand their arguments to their stub
\* operation (the messages in the given order) and, when the stub returns a
\* value, return exactly that value.
C8_PassThrough ==
    (last # None /\ last[1].method \in {"chat_complete", "embed", "transcribe"})
    => /\ stubLog[1].op = last[1].method
       /\ stubLog[1].kwargs = ExpectedKwargs(last[1].method, last[1].args)
       /\ (last[1].script[1].fault = None =>
              /\ last[1].result = last[1].script[1].value
              /\ last[1].raised = None)

\* transcribe returned the stub's response.
C8_Witness ==
    /\ last # None
    /\ last[1].method = "transcribe"
    /\ last[1].script[1].value = Some([text |-> " there"])
    /\ last[1].result = Some([text |-> " there"])

----------------------------------------------------------------------------
(* C9 *)

\* The port a URL's port text stands for.
PortOf(text) == IF text = <<>> THEN None ELSE Some(ToInt(text))

\* The construction succeeded on the URL written from the parts u.
AcceptedUrl(u) ==
    /\ ctor # None
    /\ ctor[1].raised = None
    /\ options[1].baseUrl = FormatUrl(u[1], u[2], u[3], u[4])

\* The default URL gives host api.function.network and TLS.
DefaultUrlChannel ==
    (ctor # None /\ ctor[1].raised = None
        /\ options[1].baseUrl = DEFAULT_BASE_PATH)
    => ctor[1].channel =
          Some([host |-> Some(SubSeq(DEFAULT_BASE_PATH, 9, 28)),
                port |-> None, path |-> <<>>, ssl |-> TRUE])

\* C9 (as claimed): for every accepted baseUrl the Channel is opened with TLS
\* iff the scheme is https, and with host, port and path equal to the URL's
\* host, port and path.
C9_ComponentsExactly ==
    /\ DefaultUrlChannel
    /\ \A u \in UrlParts :
          AcceptedUrl(u) =>
             /\ ctor[1].channel[1].ssl = (Lower(u[1]) = https)
             /\ ctor[1].channel[1].host = Some(u[2])
             /\ ctor[1].channel[1].port = PortOf(u[3])
             /\ ctor[1].channel[1].path = u[4]

\* C9 (amended): for every accepted baseUrl the Channel is opened with TLS
\* iff the scheme is https, with the URL's host in lower case, with the
\* URL's port as a number (none when the URL has none) and with the URL's
\* path.
C9_ComponentsHostLowered ==
    /\ DefaultUrlChannel
    /\ \A u \in UrlParts :
          AcceptedUrl(u) =>
             /\ ctor[1].channel[1].ssl = (Lower(u[1]) = https)
             /\ ctor[1].channel[1].host = Some(Lower(u[2]))
             /\ ctor[1].channel[1].port = PortOf(u[3])
             /\ ctor[1].channel[1].path = u[4]

\* A client was constructed on http://A.io: no TLS, host a.io.
C9_Witness ==
    /\ client # None
    /\ options[1].baseUrl = <<"h", "t", "t", "p", ":", "/", "/", "A", ".", "i", "o">>
    /\ ~ctor[1].channel[1].ssl
    /\ ctor[1].channel[1].host = Some(<<"a", ".", "i", "o">>)

----------------------------------------------------------------------------
(* C10 *)

\* C10: tokenStream gives the contents of the chunks after the first and
\* nothing else: what the consumer has received so far is a prefix of the
\* contents of c2..cn, and all of them once the iteration has ended; the
\* record's role is the role of c1 whatever the roles of c2..cn.
C10_TokensAreTailContents ==
    Returned
    => LET rest == ContentsOf(Tail(raw.chunks))
       IN  /\ Len(TokensSeen) <= Len(rest)
           /\ TokensSeen = SubSeq(rest, 1, Len(TokensSeen))
           /\ TokensFirst
           /\ (RaisesSeen # <<>> => TokensSeen = rest)
           /\ record[1].role = raw.chunks[1].role

\* A stream of three chunks, the third with another role than the first,
\* iterated to its end: the two tokens are the contents of c2 and c3.
C10_Witness ==
    /\ Returned
    /\ Len(raw.chunks) = 3
    /\ raw.chunks[3].role # raw.chunks[1].role
    /\ RaisesSeen # <<>>
    /\ TokensSeen = <<" there", "Hi">>
    /\ record[1].role = "assistant"

====
